---- MODULE Spec2Model ----
(***************************************************************************)
(* Model of src/utils/converter.ts: the conversion between JavaScript      *)
(* values and Firestore REST field values.                                 *)
(*                                                                         *)
(* A JavaScript value is a tagged tuple <<tag, payload>>; wire values are  *)
(* JavaScript objects too, so one representation serves both sides:        *)
(*   <<"string", cs>>     cs a sequence of one-character strings           *)
(*   <<"number", [num |-> n, den |-> d]>>  the number n/d, d \in {1, 2};   *)
(*                        d = 0 is a non-finite number (0/0 is NaN)        *)
(*   <<"boolean", b>>     <<"null">>     <<"undefined">>                   *)
(*   <<"symbol", cs>>     a symbol with description cs                     *)
(*   <<"Date", [nan |-> b, day |-> d, ms |-> m]>>  time value              *)
(*                        d * 86400000 + m, or NaN (an Invalid Date)       *)
(*   <<"DocumentReference", cs>>  a client handle with path cs             *)
(*   <<"LiteralDocumentReference", s>>, <<"LiteralGeoPointValue", g>>      *)
(*                        instances of the wrapper classes of the variant  *)
(*   <<"Array", seq>>     <<"Object", f>>  f a function from keys to values*)
(*   <<"throw", name>>    the call did not return: it threw `name`         *)
(***************************************************************************)
EXTENDS Integers, Sequences, FiniteSets, TLC

VARIABLES
    source,   \* which entry point the caller uses on `input`
    input,    \* the argument of the first call
    first,    \* the result of the first call
    second,   \* the result of feeding `first` to the inverse function
    pc        \* "ready", "once" (first call returned), "twice"

vars == <<source, input, first, second, pc>>

----------------------------------------------------------------------------
(* Bounds of the model *)

MaxLen == 2        \* longest array
MaxKeys == 3       \* most keys of one object literal
MaxNameLen == 4    \* longest resource name, in characters
MaxWrap == 1       \* how often a value is wrapped in a further array or object

----------------------------------------------------------------------------
(* JavaScript values *)

Str(cs) == <<"string", cs>>
Num(n, d) == <<"number", [num |-> n, den |-> d]>>
Bool(b) == <<"boolean", b>>
Null == <<"null">>
Undefined == <<"undefined">>
Symbol(cs) == <<"symbol", cs>>
DateOf(d, m) == <<"Date", [nan |-> FALSE, day |-> d, ms |-> m]>>
InvalidDate == <<"Date", [nan |-> TRUE, day |-> 0, ms |-> 0]>>
DocumentReference(path) == <<"DocumentReference", path>>
Arr(s) == <<"Array", s>>
Obj(f) == <<"Object", f>>
Throw(name) == <<"throw", name>>

NaN == Num(0, 0)
EmptyObject == Obj(<< >>)
\* the object literal { k: v }
Obj1(k, v) == Obj([x \in {k} |-> v])

IsThrow(v) == v[1] = "throw"
IsObject(v) == v[1] = "Object"
IsArray(v) == v[1] = "Array"
IsString(v) == v[1] = "string"
IsNumber(v) == v[1] = "number"
IsDate(v) == v[1] = "Date"

\* the typeof operator
TypeOf(v) ==
    IF v[1] \in {"string", "number", "boolean", "undefined", "symbol"} THEN v[1]
    ELSE "object"

\* Object.keys(v) of an object; the model's arrays are asked for no keys
ObjectKeys(v) == IF IsObject(v) THEN DOMAIN v[2] ELSE {}

\* the `in` operator: k in v (own keys; literals carry no prototype keys)
HasKey(k, v) == IsObject(v) /\ k \in DOMAIN v[2]

\* v.k: undefined when the property is absent
Get(v, k) == IF HasKey(k, v) THEN v[2][k] ELSE Undefined

\* ToBoolean(v), as used by !!v and by `a && b`
Truthy(v) ==
    CASE v[1] \in {"null", "undefined"} -> FALSE
      [] v[1] = "boolean" -> v[2]
      [] v[1] = "string" -> v[2] # << >>
      [] v[1] = "number" -> v[2].num # 0
      [] OTHER -> TRUE

----------------------------------------------------------------------------
(* Strings of digits *)

DigitChars == <<"0", "1", "2", "3", "4", "5", "6", "7", "8", "9">>

IsDigit(c) == \E i \in 1..10 : DigitChars[i] = c

DigitVal(c) == (CHOOSE i \in 1..10 : DigitChars[i] = c) - 1

AllDigits(cs) == \A i \in 1..Len(cs) : IsDigit(cs[i])

\* the value of a sequence of decimal digits
RECURSIVE DigitsValue(_)
DigitsValue(cs) ==
    IF cs = << >> THEN 0
    ELSE 10 * DigitsValue(SubSeq(cs, 1, Len(cs) - 1)) + DigitVal(cs[Len(cs)])

\* n >= 0 written with exactly w digits (the low w digits of n)
RECURSIVE Pad(_, _)
Pad(n, w) ==
    IF w = 0 THEN << >>
    ELSE Append(Pad(n \div 10, w - 1), DigitChars[(n % 10) + 1])

----------------------------------------------------------------------------
(* Dates: Date.prototype.toISOString and the Date(string) constructor *)

\* the civil date <<year, month, day>> of a day number (days since 1970-01-01)
CivilFromDays(z0) ==
    LET z == z0 + 719468
        era == z \div 146097
        doe == z % 146097
        yoe == (doe - doe \div 1460 + doe \div 36524 - doe \div 146096) \div 365
        doy == doe - (365 * yoe + yoe \div 4 - yoe \div 100)
        mp == (5 * doy + 2) \div 153
        d == doy - (153 * mp + 2) \div 5 + 1
        m == IF mp < 10 THEN mp + 3 ELSE mp - 9
        y == yoe + era * 400 + (IF m <= 2 THEN 1 ELSE 0)
    IN  <<y, m, d>>

\* the day number of a civil date
DaysFromCivil(y0, m, d) ==
    LET y == IF m <= 2 THEN y0 - 1 ELSE y0
        era == y \div 400
        yoe == y % 400
        doy == (153 * (IF m > 2 THEN m - 3 ELSE m + 9) + 2) \div 5 + d - 1
        doe == yoe * 365 + yoe \div 4 - yoe \div 100 + doy
    IN  era * 146097 + doe - 719468

IsLeapYear(y) == y % 4 = 0 /\ (y % 100 # 0 \/ y % 400 = 0)

DaysInMonth(y, m) ==
    IF m = 2 THEN (IF IsLeapYear(y) THEN 29 ELSE 28)
    ELSE IF m \in {4, 6, 9, 11} THEN 30 ELSE 31

\* the year of an ISO string: four digits, or a sign and six digits outside 0..9999
YearChars(y) ==
    IF y >= 0 /\ y <= 9999 THEN Pad(y, 4)
    ELSE <<(IF y < 0 THEN "-" ELSE "+")>> \o Pad((IF y < 0 THEN 0 - y ELSE y), 6)

\* value.toISOString() of a Date with a finite time value t:
\* YYYY-MM-DDTHH:mm:ss.sssZ, as a sequence of characters
ToISOChars(t) ==
    LET ymd == CivilFromDays(t.day)
    IN  YearChars(ymd[1]) \o <<"-">> \o Pad(ymd[2], 2) \o <<"-">> \o Pad(ymd[3], 2)
        \o <<"T">> \o Pad(t.ms \div 3600000, 2)
        \o <<":">> \o Pad((t.ms \div 60000) % 60, 2)
        \o <<":">> \o Pad((t.ms \div 1000) % 60, 2)
        \o <<".">> \o Pad(t.ms % 1000, 3) \o <<"Z">>

\* value.toISOString(): a RangeError when the time value is NaN
toISOString(value) ==
    IF value[2].nan THEN Throw("RangeError") ELSE Str(ToISOChars(value[2]))

\* new Date(s) for a string s: the time value of a full ISO date-time string in
\* UTC, an Invalid Date for any other text (the model's inputs hold no other
\* date format)
NewDate(s) ==
    LET cs == s[2]
        signed == Len(cs) > 0 /\ cs[1] \in {"+", "-"}
        o == IF signed THEN 7 ELSE 4
        ydigits == IF signed THEN SubSeq(cs, 2, 7) ELSE SubSeq(cs, 1, 4)
        F(a, b) == SubSeq(cs, o + a, o + b)
        shaped ==
            /\ IsString(s)
            /\ Len(cs) = o + 20
            /\ AllDigits(ydigits)
            /\ cs[o + 1] = "-" /\ AllDigits(F(2, 3))
            /\ cs[o + 4] = "-" /\ AllDigits(F(5, 6))
            /\ cs[o + 7] = "T" /\ AllDigits(F(8, 9))
            /\ cs[o + 10] = ":" /\ AllDigits(F(11, 12))
            /\ cs[o + 13] = ":" /\ AllDigits(F(14, 15))
            /\ cs[o + 16] = "." /\ AllDigits(F(17, 19))
            /\ cs[o + 20] = "Z"
        y == IF signed /\ cs[1] = "-" THEN 0 - DigitsValue(ydigits) ELSE DigitsValue(ydigits)
        mo == DigitsValue(F(2, 3))
        d == DigitsValue(F(5, 6))
        h == DigitsValue(F(8, 9))
        mi == DigitsValue(F(11, 12))
        sec == DigitsValue(F(14, 15))
        milli == DigitsValue(F(17, 19))
    IN  IF /\ shaped
           /\ ~(signed /\ cs[1] = "-" /\ y = 0)
           /\ mo \in 1..12 /\ d >= 1 /\ d <= DaysInMonth(y, mo)
           /\ h < 24 /\ mi < 60 /\ sec < 60
        THEN DateOf(DaysFromCivil(y, mo, d), h * 3600000 + mi * 60000 + sec * 1000 + milli)
        ELSE InvalidDate

----------------------------------------------------------------------------
(* Number(x) and String(x) *)

\* Number(x): a number is itself; a string of decimal digits is its value,
\* the empty string 0, any other string NaN
ToNumber(x) ==
    CASE x[1] = "number" -> x
      [] x[1] = "string" ->
            IF AllDigits(x[2]) THEN Num(DigitsValue(x[2]), 1)
            ELSE IF Len(x[2]) > 1 /\ x[2][1] = "-" /\ AllDigits(Tail(x[2]))
                 THEN Num(0 - DigitsValue(Tail(x[2])), 1)
            ELSE NaN
      [] x[1] = "boolean" -> Num((IF x[2] THEN 1 ELSE 0), 1)
      [] x[1] = "null" -> Num(0, 1)
      [] OTHER -> NaN

\* Number.isInteger(x)
IsInteger(x) == IsNumber(x) /\ x[2].den = 1

\* String(value) of a value that is no string, number, boolean, null,
\* undefined or object: a symbol gives "Symbol(description)"
StringOf(value) ==
    Str(<<"S", "y", "m", "b", "o", "l", "(">> \o value[2] \o <<")">>)

----------------------------------------------------------------------------
(* External collaborators *)

\* pathUtil.getParentReference(path): the fully-qualified resource name of a
\* path, the path under the database's documents root
getParentReference(path) == Str(<<"r", "/">> \o path)

\* getDocumentId(name): the text after the last "/" of a resource name
getDocumentId(name) ==
    LET cs == name[2]
        slashes == {i \in 1..Len(cs) : cs[i] = "/"}
        last == IF slashes = {} THEN 0
                ELSE CHOOSE i \in slashes : \A j \in slashes : j <= i
    IN  Str(SubSeq(cs, last + 1, Len(cs)))

----------------------------------------------------------------------------
(* convertToFirestoreValue *)

\* some thrown result among rs, if there is one (every throw of one call
\* of the encoder is the same RangeError, so which one is no choice)
FirstThrow(rs) == CHOOSE r \in rs : IsThrow(r)

\* a number encoder that never takes the integer branch
NumberFieldValue_AllDouble(value) == Obj1("doubleValue", value)

\* typeof value === "number": integerValue or doubleValue
NumberFieldValue(value) ==
    IF IsInteger(value) THEN Obj1("integerValue", value)
    ELSE Obj1("doubleValue", value)

\* a reference test that does not count the keys
IsLiteralDocumentReference_AnyKeys(unknown) ==
    /\ TypeOf(unknown) = "object"
    /\ Truthy(unknown) /\ HasKey("referenceValue", unknown)
    /\ TypeOf(Get(unknown, "referenceValue")) = "string"

\* the exact shape { referenceValue: string }
IsLiteralDocumentReference(unknown) ==
    /\ TypeOf(unknown) = "object"
    /\ Truthy(unknown) /\ HasKey("referenceValue", unknown)
    /\ Cardinality(ObjectKeys(unknown)) = 1
    /\ TypeOf(Get(unknown, "referenceValue")) = "string"

\* the shape test of a geo point literal
IsLiteralGeoPointValue(unknown) ==
    /\ TypeOf(unknown) = "object"
    /\ Truthy(unknown)
    /\ HasKey("geoPointValue", unknown)
    /\ Cardinality(ObjectKeys(unknown)) = 1
    /\ TypeOf(Get(unknown, "geoPointValue")) = "object"
    /\ Truthy(Get(unknown, "geoPointValue"))
    /\ HasKey("latitude", Get(unknown, "geoPointValue"))
    /\ HasKey("longitude", Get(unknown, "geoPointValue"))
    /\ Cardinality(ObjectKeys(Get(unknown, "geoPointValue"))) = 1
    /\ TypeOf(Get(Get(unknown, "geoPointValue"), "latitude")) = "number"
    /\ TypeOf(Get(Get(unknown, "geoPointValue"), "longitude")) = "number"

RECURSIVE convertToFirestoreValue(_)
convertToFirestoreValue(value) ==
    IF IsDate(value) THEN
        LET iso == toISOString(value)
        IN  IF IsThrow(iso) THEN iso ELSE Obj1("timestampValue", iso)
    ELSE IF value[1] = "DocumentReference" THEN
        Obj1("referenceValue", getParentReference(value[2]))
    ELSE IF TypeOf(value) = "string" THEN
        Obj1("stringValue", value)
    ELSE IF TypeOf(value) = "number" THEN
        NumberFieldValue(value)
    ELSE IF TypeOf(value) = "boolean" THEN
        Obj1("booleanValue", value)
    ELSE IF value = Null \/ value = Undefined THEN
        Obj1("nullValue", Null)
    ELSE IF IsArray(value) THEN
        LET values == [i \in 1..Len(value[2]) |-> convertToFirestoreValue(value[2][i])]
            rs == {values[i] : i \in 1..Len(value[2])}
        IN  IF \E r \in rs : IsThrow(r) THEN FirstThrow(rs)
            ELSE Obj1("arrayValue", Obj1("values", Arr(values)))
    ELSE IF TypeOf(value) = "object" THEN
        IF IsLiteralDocumentReference(value) THEN
            Obj1("referenceValue", Get(value, "referenceValue"))
        ELSE IF IsLiteralGeoPointValue(value) THEN
            Obj1("geoPointValue",
                 Obj([k \in {"latitude", "longitude"} |->
                        Get(Get(value, "geoPointValue"), k)]))
        ELSE
            LET fields == [key \in ObjectKeys(value) |-> convertToFirestoreValue(value[2][key])]
                rs == {fields[key] : key \in ObjectKeys(value)}
            IN  IF \E r \in rs : IsThrow(r) THEN FirstThrow(rs)
                ELSE Obj1("mapValue", Obj1("fields", Obj(fields)))
    ELSE
        Obj1("stringValue", StringOf(value))

----------------------------------------------------------------------------
(* convertFromFirestoreValue *)

\* a map test that does not look at `fields`
HasMapFields_KeyOnly(firestoreValue) == HasKey("mapValue", firestoreValue)

\* "mapValue" in firestoreValue && firestoreValue.mapValue.fields
HasMapFields(firestoreValue) ==
    /\ HasKey("mapValue", firestoreValue)
    /\ Truthy(Get(Get(firestoreValue, "mapValue"), "fields"))

\* "arrayValue" in firestoreValue && firestoreValue.arrayValue.values
HasArrayValues(firestoreValue) ==
    /\ HasKey("arrayValue", firestoreValue)
    /\ Truthy(Get(Get(firestoreValue, "arrayValue"), "values"))

\* every wire value of types.ts is an object whose mapValue and arrayValue
\* payloads are objects; Object.entries of an absent `fields` and `.map` of
\* an absent `values` are TypeErrors
RECURSIVE convertFromFirestoreValue(_)
convertFromFirestoreValue(firestoreValue) ==
    IF HasKey("stringValue", firestoreValue) THEN
        Get(firestoreValue, "stringValue")
    ELSE IF HasKey("integerValue", firestoreValue) THEN
        ToNumber(Get(firestoreValue, "integerValue"))
    ELSE IF HasKey("doubleValue", firestoreValue) THEN
        Get(firestoreValue, "doubleValue")
    ELSE IF HasKey("booleanValue", firestoreValue) THEN
        Get(firestoreValue, "booleanValue")
    ELSE IF HasKey("nullValue", firestoreValue) THEN
        Null
    ELSE IF HasKey("timestampValue", firestoreValue) THEN
        NewDate(Get(firestoreValue, "timestampValue"))
    ELSE IF HasKey("geoPointValue", firestoreValue) THEN
        firestoreValue
    ELSE IF HasKey("referenceValue", firestoreValue) THEN
        firestoreValue
    ELSE IF HasMapFields(firestoreValue) THEN
        LET fields == Get(Get(firestoreValue, "mapValue"), "fields")
            acc == [key \in ObjectKeys(fields) |-> convertFromFirestoreValue(fields[2][key])]
            rs == {acc[key] : key \in ObjectKeys(fields)}
        IN  IF ~IsObject(fields) THEN Throw("TypeError")
            ELSE IF \E r \in rs : IsThrow(r) THEN FirstThrow(rs)
            ELSE Obj(acc)
    ELSE IF HasArrayValues(firestoreValue) THEN
        LET values == Get(Get(firestoreValue, "arrayValue"), "values")
            out == [i \in 1..Len(values[2]) |-> convertFromFirestoreValue(values[2][i])]
            rs == {out[i] : i \in 1..Len(values[2])}
        IN  IF ~IsArray(values) THEN Throw("TypeError")
            ELSE IF \E r \in rs : IsThrow(r) THEN FirstThrow(rs)
            ELSE Arr(out)
    ELSE
        Null

----------------------------------------------------------------------------
(* The variant of the two functions in unnamed/part_000: references and geo
   points are instances of two wrapper classes, plain objects are not
   inspected for the two shapes, and an arrayValue without values decodes
   to the empty array *)

\* new LiteralDocumentReference(firestoreValue): keeps the referenceValue
LiteralDocumentReference(firestoreValue) ==
    <<"LiteralDocumentReference", Get(firestoreValue, "referenceValue")>>

\* new LiteralGeoPointValue(firestoreValue): keeps the geoPointValue
LiteralGeoPointValue(firestoreValue) ==
    <<"LiteralGeoPointValue", Get(firestoreValue, "geoPointValue")>>

RECURSIVE convertToFirestoreValue_part000(_)
convertToFirestoreValue_part000(value) ==
    IF IsDate(value) THEN
        LET iso == toISOString(value)
        IN  IF IsThrow(iso) THEN iso ELSE Obj1("timestampValue", iso)
    ELSE IF value[1] = "DocumentReference" THEN
        Obj1("referenceValue", getParentReference(value[2]))
    ELSE IF value[1] = "LiteralDocumentReference" THEN
        Obj1("referenceValue", value[2])
    ELSE IF value[1] = "LiteralGeoPointValue" THEN
        Obj1("geoPointValue", value[2])
    ELSE IF TypeOf(value) = "string" THEN
        Obj1("stringValue", value)
    ELSE IF TypeOf(value) = "number" THEN
        NumberFieldValue(value)
    ELSE IF TypeOf(value) = "boolean" THEN
        Obj1("booleanValue", value)
    ELSE IF value = Null \/ value = Undefined THEN
        Obj1("nullValue", Null)
    ELSE IF IsArray(value) THEN
        LET values == [i \in 1..Len(value[2]) |-> convertToFirestoreValue_part000(value[2][i])]
            rs == {values[i] : i \in 1..Len(value[2])}
        IN  IF \E r \in rs : IsThrow(r) THEN FirstThrow(rs)
            ELSE Obj1("arrayValue", Obj1("values", Arr(values)))
    ELSE IF TypeOf(value) = "object" THEN
        LET fields == [key \in ObjectKeys(value) |->
                          convertToFirestoreValue_part000(value[2][key])]
            rs == {fields[key] : key \in ObjectKeys(value)}
        IN  IF \E r \in rs : IsThrow(r) THEN FirstThrow(rs)
            ELSE Obj1("mapValue", Obj1("fields", Obj(fields)))
    ELSE
        Obj1("stringValue", StringOf(value))

RECURSIVE convertFromFirestoreValue_part000(_)
convertFromFirestoreValue_part000(firestoreValue) ==
    IF HasKey("stringValue", firestoreValue) THEN
        Get(firestoreValue, "stringValue")
    ELSE IF HasKey("integerValue", firestoreValue) THEN
        ToNumber(Get(firestoreValue, "integerValue"))
    ELSE IF HasKey("doubleValue", firestoreValue) THEN
        Get(firestoreValue, "doubleValue")
    ELSE IF HasKey("booleanValue", firestoreValue) THEN
        Get(firestoreValue, "booleanValue")
    ELSE IF HasKey("nullValue", firestoreValue) THEN
        Null
    ELSE IF HasKey("timestampValue", firestoreValue) THEN
        NewDate(Get(firestoreValue, "timestampValue"))
    ELSE IF HasKey("geoPointValue", firestoreValue) THEN
        LiteralGeoPointValue(firestoreValue)
    ELSE IF HasKey("referenceValue", firestoreValue) THEN
        LiteralDocumentReference(firestoreValue)
    ELSE IF HasMapFields(firestoreValue) THEN
        LET fields == Get(Get(firestoreValue, "mapValue"), "fields")
            acc == [key \in ObjectKeys(fields) |->
                       convertFromFirestoreValue_part000(fields[2][key])]
            rs == {acc[key] : key \in ObjectKeys(fields)}
        IN  IF ~IsObject(fields) THEN Throw("TypeError")
            ELSE IF \E r \in rs : IsThrow(r) THEN FirstThrow(rs)
            ELSE Obj(acc)
    ELSE IF HasKey("arrayValue", firestoreValue) THEN
        LET given == Get(Get(firestoreValue, "arrayValue"), "values")
            values == IF given \in {Null, Undefined} THEN Arr(<< >>) ELSE given
            out == [i \in 1..Len(values[2]) |->
                       convertFromFirestoreValue_part000(values[2][i])]
            rs == {out[i] : i \in 1..Len(values[2])}
        IN  IF ~IsArray(values) THEN Throw("TypeError")
            ELSE IF \E r \in rs : IsThrow(r) THEN FirstThrow(rs)
            ELSE Arr(out)
    ELSE
        Null

----------------------------------------------------------------------------
(* convertToFirestoreDocument and convertFromFirestoreDocument *)

convertToFirestoreDocument(data) ==
    LET fields == [key \in ObjectKeys(data) |-> convertToFirestoreValue(data[2][key])]
        rs == {fields[key] : key \in ObjectKeys(data)}
    IN  IF \E r \in rs : IsThrow(r) THEN FirstThrow(rs)
        ELSE Obj1("fields", Obj(fields))

\* { id: id, ...result }: the id member first, then the spread over it
IdThenSpread(result, id) ==
    Obj([key \in DOMAIN result \cup {"id"} |->
            IF key \in DOMAIN result THEN result[key] ELSE id])

\* { ...result, id: id }: the spread first, then the id member
SpreadThenId(result, id) ==
    Obj([key \in DOMAIN result \cup {"id"} |-> IF key = "id" THEN id ELSE result[key]])

\* a document decoder that copies the fields without decoding them
convertFromFirestoreDocument_Raw(doc) ==
    IF ~Truthy(Get(doc, "fields")) THEN Obj1("id", getDocumentId(Get(doc, "name")))
    ELSE SpreadThenId(Get(doc, "fields")[2], getDocumentId(Get(doc, "name")))

convertFromFirestoreDocument(doc) ==
    IF ~Truthy(Get(doc, "fields")) THEN Obj1("id", getDocumentId(Get(doc, "name")))
    ELSE
        LET fields == Get(doc, "fields")
            result == [key \in ObjectKeys(fields) |-> convertFromFirestoreValue(fields[2][key])]
            rs == {result[key] : key \in ObjectKeys(fields)}
        IN  IF \E r \in rs : IsThrow(r) THEN FirstThrow(rs)
            ELSE SpreadThenId(result, getDocumentId(Get(doc, "name")))

----------------------------------------------------------------------------
(* The callers' inputs *)

\* the functions of at most MaxKeys of the keys ks into vs
Literals(ks, vs) ==
    UNION {[D -> vs] : D \in {E \in SUBSET ks : Cardinality(E) <= MaxKeys}}

\* the sequences of at most MaxLen of vs
Lists(vs) == UNION {[1..n -> vs] : n \in 0..MaxLen}

X == <<"x">>
Epoch == DateOf(0, 0)
IsoEpoch == toISOString(Epoch)

NativeScalars ==
    { Str(<< >>), Str(X), Num(5, 1), Num(-3, 1), Num(11, 2), NaN, Num(1, 0),
      Bool(TRUE), Bool(FALSE), Null, Undefined,
      Epoch, DateOf(-1, 86399999), DateOf(11016, 45296789),
      DateOf(2932897, 1), DateOf(-719529, 1), InvalidDate,
      DocumentReference(<<"c", "/", "d">>), Symbol(X) }

FieldScalars == {Str(X), Num(5, 1), Num(11, 2), Null}

ItemScalars == FieldScalars \cup {Epoch, InvalidDate}

Keys == {"a", "referenceValue", "geoPointValue", "latitude", "longitude"}

FlatNatives ==
    NativeScalars
    \cup {Obj(f) : f \in Literals(Keys, FieldScalars)}
    \cup {Arr(s) : s \in Lists(ItemScalars)}

\* ways to wrap a value c: as the only item of an array, as the only member
\* k of an object, and as the referenceValue or geoPointValue member beside
\* one more member
NativeWraps ==
    {<<"item", "0">>}
    \cup {<<"member", k>> : k \in {"a", "referenceValue", "geoPointValue"}}
    \cup {<<"beside", k>> : k \in {"referenceValue", "geoPointValue"}}

WrapNative(wrap, c) ==
    CASE wrap[1] = "item" -> Arr(<<c>>)
      [] wrap[1] = "member" -> Obj1(wrap[2], c)
      [] wrap[1] = "beside" ->
            Obj([k \in {"a", wrap[2]} |-> IF k = "a" THEN Num(5, 1) ELSE c])

\* the sequences of at most MaxWrap wraps
WrapPaths(wraps) == UNION {[1..n -> wraps] : n \in 0..MaxWrap}

\* c wrapped by path[1], the result by path[2], ...
RECURSIVE NativeWrapped(_, _)
NativeWrapped(path, c) ==
    IF path = << >> THEN c
    ELSE NativeWrapped(Tail(path), WrapNative(Head(path), c))

\* wire values: the ten variants of FirestoreFieldValue, mapValue and
\* arrayValue also without their fields / values member, the empty object
\* and an object of an unknown key
WireScalars ==
    { Obj1("stringValue", Str(X)),
      Obj1("integerValue", Num(5, 1)), Obj1("integerValue", Str(<<"4", "2">>)),
      Obj1("doubleValue", Num(11, 2)),
      Obj1("booleanValue", Bool(TRUE)),
      Obj1("nullValue", Null),
      Obj1("timestampValue", IsoEpoch), Obj1("timestampValue", Str(X)),
      Obj1("geoPointValue", Obj([k \in {"latitude", "longitude"} |->
                                    IF k = "latitude" THEN Num(5, 1) ELSE Num(11, 2)])),
      Obj1("referenceValue", Str(<<"r", "/", "c", "/", "d">>)),
      Obj1("mapValue", EmptyObject),
      Obj1("arrayValue", EmptyObject),
      EmptyObject,
      Obj1("bytesValue", Str(X)) }

WireKeys == {"a", "stringValue", "values"}

FlatWires ==
    WireScalars
    \cup {Obj1("mapValue", Obj1("fields", Obj(f))) : f \in Literals(WireKeys, WireScalars)}
    \cup {Obj1("arrayValue", Obj1("values", Arr(s))) : s \in Lists(WireScalars)}

WireWraps == {"arrayValue", "mapValue"}

WrapWire(wrap, w) ==
    IF wrap = "arrayValue" THEN Obj1("arrayValue", Obj1("values", Arr(<<w>>)))
    ELSE Obj1("mapValue", Obj1("fields", Obj1("a", w)))

RECURSIVE WireWrapped(_, _)
WireWrapped(path, w) ==
    IF path = << >> THEN w
    ELSE WireWrapped(Tail(path), WrapWire(Head(path), w))

\* resource names: texts of at most MaxNameLen characters
NameChars == {"c", "d", "/"}

Names == {Str(cs) : cs \in UNION {[1..n -> NameChars] : n \in 0..MaxNameLen}}

DocKeys == {"n", "id"}

DocWires ==
    { Obj1("stringValue", Str(X)), Obj1("stringValue", Str(<<"d">>)),
      Obj1("integerValue", Num(5, 1)), Obj1("mapValue", EmptyObject) }

\* FirestoreResponse: a name, and fields or not
Documents ==
    {Obj1("name", n) : n \in Names}
    \cup {Obj([k \in {"name", "fields"} |-> IF k = "name" THEN n ELSE Obj(f)]) :
            n \in Names, f \in Literals(DocKeys, DocWires)}

\* the records a caller stores
Records == {Obj(f) : f \in Literals(DocKeys, FieldScalars \cup {Str(<<"d">>)})}

----------------------------------------------------------------------------
(* The calls *)

None == <<"none">>

InitValue ==
    /\ source = "value"
    /\ \E c \in FlatNatives, path \in WrapPaths(NativeWraps) : input = NativeWrapped(path, c)
    /\ first = None /\ second = None /\ pc = "ready"

InitWire ==
    /\ source = "wire"
    /\ \E w \in FlatWires, path \in WrapPaths(WireWraps) : input = WireWrapped(path, w)
    /\ first = None /\ second = None /\ pc = "ready"

InitDocument ==
    /\ source \in {"document", "record"}
    /\ input \in (IF source = "document" THEN Documents ELSE Records)
    /\ first = None /\ second = None /\ pc = "ready"

\* convertToFirestoreValue(input)
Encode ==
    /\ source = "value" /\ pc = "ready"
    /\ first' = convertToFirestoreValue(input)
    /\ pc' = "once"
    /\ UNCHANGED <<source, input, second>>

\* convertFromFirestoreValue of what Encode returned
DecodeEncoded ==
    /\ source = "value" /\ pc = "once" /\ ~IsThrow(first)
    /\ second' = convertFromFirestoreValue(first)
    /\ pc' = "twice"
    /\ UNCHANGED <<source, input, first>>

\* convertFromFirestoreValue(input)
Decode ==
    /\ source = "wire" /\ pc = "ready"
    /\ first' = convertFromFirestoreValue(input)
    /\ pc' = "once"
    /\ UNCHANGED <<source, input, second>>

\* convertToFirestoreValue of what Decode returned
EncodeDecoded ==
    /\ source = "wire" /\ pc = "once" /\ ~IsThrow(first)
    /\ second' = convertToFirestoreValue(first)
    /\ pc' = "twice"
    /\ UNCHANGED <<source, input, first>>

\* convertFromFirestoreDocument(input)
DecodeDocument ==
    /\ source = "document" /\ pc = "ready"
    /\ first' = convertFromFirestoreDocument(input)
    /\ pc' = "once"
    /\ UNCHANGED <<source, input, second>>

\* convertToFirestoreDocument(input)
EncodeDocument ==
    /\ source = "record" /\ pc = "ready"
    /\ first' = convertToFirestoreDocument(input)
    /\ pc' = "once"
    /\ UNCHANGED <<source, input, second>>

\* the stored document comes back under some resource name and is decoded
DecodeStored ==
    /\ source = "record" /\ pc = "once" /\ ~IsThrow(first)
    /\ \E n \in Names :
          second' = <<n, convertFromFirestoreDocument(
                             Obj([k \in {"name", "fields"} |->
                                    IF k = "name" THEN n ELSE Get(first, "fields")]))>>
    /\ pc' = "twice"
    /\ UNCHANGED <<source, input, first>>

\* the same four calls on the variant of unnamed/part_000
EncodeVariant ==
    /\ source = "value" /\ pc = "ready"
    /\ first' = convertToFirestoreValue_part000(input)
    /\ pc' = "once"
    /\ UNCHANGED <<source, input, second>>

DecodeEncodedVariant ==
    /\ source = "value" /\ pc = "once" /\ ~IsThrow(first)
    /\ second' = convertFromFirestoreValue_part000(first)
    /\ pc' = "twice"
    /\ UNCHANGED <<source, input, first>>

DecodeVariant ==
    /\ source = "wire" /\ pc = "ready"
    /\ first' = convertFromFirestoreValue_part000(input)
    /\ pc' = "once"
    /\ UNCHANGED <<source, input, second>>

EncodeDecodedVariant ==
    /\ source = "wire" /\ pc = "once" /\ ~IsThrow(first)
    /\ second' = convertToFirestoreValue_part000(first)
    /\ pc' = "twice"
    /\ UNCHANGED <<source, input, first>>

ValueNext == Encode \/ DecodeEncoded
WireNext == Decode \/ EncodeDecoded
DocumentNext == DecodeDocument \/ EncodeDocument \/ DecodeStored

ValueSpec == InitValue /\ [][ValueNext]_vars
WireSpec == InitWire /\ [][WireNext]_vars
DocumentSpec == InitDocument /\ [][DocumentNext]_vars

VariantNext == EncodeVariant \/ DecodeEncodedVariant \/ DecodeVariant \/ EncodeDecodedVariant
VariantSpec == (InitValue \/ InitWire) /\ [][VariantNext]_vars

Init == InitValue \/ InitWire \/ InitDocument
Next == ValueNext \/ WireNext \/ DocumentNext
Spec == Init /\ [][Next]_vars

----------------------------------------------------------------------------
(* Vocabulary of the properties *)

Discriminators ==
    { "stringValue", "integerValue", "doubleValue", "booleanValue", "nullValue",
      "timestampValue", "geoPointValue", "referenceValue", "mapValue", "arrayValue" }

Encoded == source = "value" /\ pc \in {"once", "twice"}
Decoded == source = "wire" /\ pc \in {"once", "twice"}
ReEncoded == source = "wire" /\ pc = "twice"
DocumentDecoded == source = "document" /\ pc = "once"
StoredDecoded == source = "record" /\ pc = "twice"

\* v is built from strings, numbers, booleans, null, Dates, arrays and objects
RECURSIVE IsPlainData(_)
IsPlainData(v) ==
    \/ v[1] \in {"string", "number", "boolean", "null", "Date"}
    \/ IsArray(v) /\ \A i \in 1..Len(v[2]) : IsPlainData(v[2][i])
    \/ IsObject(v) /\ \A k \in DOMAIN v[2] : IsPlainData(v[2][k])

\* w and every wire value inside it has exactly one discriminator key
RECURSIVE WellTagged(_)
WellTagged(w) ==
    /\ IsObject(w)
    /\ Cardinality(ObjectKeys(w) \cap Discriminators) = 1
    /\ HasKey("arrayValue", w) =>
          LET values == Get(Get(w, "arrayValue"), "values")
          IN  IsArray(values) /\ \A i \in 1..Len(values[2]) : WellTagged(values[2][i])
    /\ HasKey("mapValue", w) =>
          LET fields == Get(Get(w, "mapValue"), "fields")
          IN  IsObject(fields) /\ \A k \in DOMAIN fields[2] : WellTagged(fields[2][k])

\* the literal { referenceValue: string }
ExactReferenceShape(v) ==
    /\ IsObject(v) /\ ObjectKeys(v) = {"referenceValue"}
    /\ IsString(Get(v, "referenceValue"))

\* the object { latitude: number, longitude: number }
IsLatLng(g) ==
    /\ IsObject(g) /\ ObjectKeys(g) = {"latitude", "longitude"}
    /\ IsNumber(Get(g, "latitude")) /\ IsNumber(Get(g, "longitude"))

\* the literal { geoPointValue: { latitude: number, longitude: number } }
ExactGeoPointShape(v) ==
    /\ IsObject(v) /\ ObjectKeys(v) = {"geoPointValue"}
    /\ IsLatLng(Get(v, "geoPointValue"))

\* a number that is mathematically an integer
IsMathInteger(x) == x[2].den # 0 /\ x[2].num % x[2].den = 0

----------------------------------------------------------------------------
(* The claims *)

\* C1: for every value v built from strings, numbers, booleans, null, Dates,
\* arrays and plain objects, convertToFirestoreValue(v) returns and
\* convertFromFirestoreValue of it equals v.
C1_RoundTrip ==
    (source = "value" /\ IsPlainData(input)) =>
        /\ pc = "once" => ~IsThrow(first)
        /\ pc = "twice" => second = input

\* C2: for every native value v, convertToFirestoreValue(v) returns a wire
\* value with exactly one of the ten discriminator keys, and so has every wire
\* value inside its arrayValue.values and mapValue.fields.
C2_Discriminator == Encoded => (~IsThrow(first) /\ WellTagged(first))

\* C3: an object whose only key is geoPointValue, holding exactly
\* { latitude: number, longitude: number }, is encoded as that geoPointValue.
C3_GeoPointPassThrough ==
    (Encoded /\ ExactGeoPointShape(input)) =>
        first = Obj1("geoPointValue", Get(input, "geoPointValue"))

C5_ArrayDecode ==
    (Decoded /\ HasKey("arrayValue", input)) =>
        LET values == Get(Get(input, "arrayValue"), "values")
        IN  IF values = Undefined THEN first = Arr(<< >>)
            ELSE /\ IsArray(first) /\ Len(first[2]) = Len(values[2])
                 /\ \A i \in 1..Len(values[2]) :
                        first[2][i] = convertFromFirestoreValue(values[2][i])

\* C6: convertFromFirestoreValue never throws; a wire value with none of the
\* ten discriminator keys, and a mapValue without fields, decode to null.
C6_DecoderTotal ==
    Decoded =>
        /\ ~IsThrow(first)
        /\ ObjectKeys(input) \cap Discriminators = {} => first = Null
        /\ (HasKey("mapValue", input) /\ ~HasKey("fields", Get(input, "mapValue")))
              => first = Null

C6_Witness ==
    /\ Decoded /\ first = Null
    /\ input \in {EmptyObject, Obj1("mapValue", EmptyObject), Obj1("bytesValue", Str(X))}

\* C7 as stated: the result's id is the identifier of the name; without
\* fields the result has only id; with fields its keys are the field keys
\* and id, and every field key k holds convertFromFirestoreValue(fields[k]).
C7_DocumentDecode_AsStated ==
    DocumentDecoded =>
        LET fields == Get(input, "fields")
        IN  /\ Get(first, "id") = getDocumentId(Get(input, "name"))
            /\ ~HasKey("fields", input) => ObjectKeys(first) = {"id"}
            /\ HasKey("fields", input) =>
                  /\ ObjectKeys(first) = ObjectKeys(fields) \cup {"id"}
                  /\ \A k \in ObjectKeys(fields) :
                        Get(first, k) = convertFromFirestoreValue(Get(fields, k))

\* C7 (amended): as above, but only the field keys other than id hold their
\* decoded field; id always holds the identifier of the name.
C7_DocumentDecode ==
    DocumentDecoded =>
        LET fields == Get(input, "fields")
        IN  /\ Get(first, "id") = getDocumentId(Get(input, "name"))
            /\ ~HasKey("fields", input) => ObjectKeys(first) = {"id"}
            /\ HasKey("fields", input) =>
                  /\ ObjectKeys(first) = ObjectKeys(fields) \cup {"id"}
                  /\ \A k \in ObjectKeys(fields) \ {"id"} :
                        Get(first, k) = convertFromFirestoreValue(Get(fields, k))

C7_Witness ==
    /\ DocumentDecoded
    /\ ObjectKeys(Get(input, "fields")) = {"n", "id"}
    /\ Get(first, "n") = Str(X)
    /\ Get(first, "id") = getDocumentId(Get(input, "name"))
    /\ Get(first, "id") # convertFromFirestoreValue(Get(Get(input, "fields"), "id"))

\* C8: a number x is encoded as { integerValue: x } when x is mathematically
\* an integer and as { doubleValue: x } otherwise.
C8_IntegerDoubleSplit ==
    (Encoded /\ IsNumber(input)) =>
        first = IF IsMathInteger(input) THEN Obj1("integerValue", input)
                ELSE Obj1("doubleValue", input)

C8_Witness ==
    Encoded /\ input = Num(5, 1) /\ first = Obj1("integerValue", Num(5, 1))

\* C9: for a wire value w that is a referenceValue with a string, or a
\* geoPointValue with { latitude: number, longitude: number },
\* convertToFirestoreValue(convertFromFirestoreValue(w)) = w.
C9_SpecialShapesInverse ==
    ( /\ ReEncoded
      /\ ExactReferenceShape(input) \/ ExactGeoPointShape(input) ) =>
        second = input

\* C10: when the fields of a document hold a key id, the id of the decoded
\* document is the identifier of the resource name, not the decoded field;
\* a record with an id field, encoded and decoded back under a name, carries
\* the name's identifier as its id.
C10_IdFromName ==
    /\ (DocumentDecoded /\ HasKey("id", Get(input, "fields"))) =>
          Get(first, "id") = getDocumentId(Get(input, "name"))
    /\ (StoredDecoded /\ HasKey("id", input)) =>
          Get(second[2], "id") = getDocumentId(second[1])

C10_Witness ==
    /\ StoredDecoded
    /\ HasKey("id", input)
    /\ Get(second[2], "id") = getDocumentId(second[1])
    /\ Get(second[2], "id") # Get(input, "id")

----------------------------------------------------------------------------
(* The same properties of the variant of unnamed/part_000 *)

\* C5 on the variant: an arrayValue without values decodes to the empty array
Variant_ArrayDecode ==
    (Decoded /\ HasKey("arrayValue", input)) =>
        LET values == Get(Get(input, "arrayValue"), "values")
        IN  IF values = Undefined THEN first = Arr(<< >>)
            ELSE /\ IsArray(first) /\ Len(first[2]) = Len(values[2])
                 /\ \A i \in 1..Len(values[2]) :
                        first[2][i] = convertFromFirestoreValue_part000(values[2][i])

\* C9 on the variant: a decoded reference or geo point encodes to itself
Variant_SpecialShapesInverse ==
    ( /\ ReEncoded
      /\ ExactReferenceShape(input) \/ ExactGeoPointShape(input) ) =>
        second = input

====
